---- MODULE Spec2Model ----
(***************************************************************************)
(* lpmap: a linear-probing hash map with tombstone deletion (src/lpmap.go).*)
(* The table is three parallel arrays (keys, values, statuses) indexed     *)
(* from 0, a fill threshold and an entry count.  Every operation of the    *)
(* map is one action; the loops of the operations are RECURSIVE operators  *)
(* that follow the code's loops slot by slot.  A loop that visits every    *)
(* slot without leaving has come back to its start with nothing changed:   *)
(* it never leaves, and the operator reports "hang".                       *)
(***************************************************************************)
EXTENDS Integers, Sequences, FiniteSets, TLC

\* ---------------------------------------------------------------- bounds
MaxKey == 3          \* keys are 0..MaxKey
MaxSize == 1         \* New's size argument is 0..MaxSize
MaxCap == 4          \* a Set that would resize beyond MaxCap slots is not taken
MaxOps == 5          \* Set and Delete calls made on one map

Keys == 0 .. MaxKey
\* The map never inspects a value, it only stores and copies it: two values
\* tell a stale value from a fresh one.
Vals == {1, 2}
Sizes == 0 .. MaxSize

\* ------------------------------------------------------------- constants
dead == 1
occupied == 2

\* float64 values are exact fractions <<numerator, denominator>> with a
\* positive denominator (all of them dyadic, so that float64 holds them and
\* the products and quotients below exactly enough for int() and >), or NaN,
\* written 0/0.
NaN == <<0, 0>>
defaultFillFactor == <<1, 2>>

\* The fill factors New is called with: valid ones in (0, 1], and invalid
\* ones (zero, negative, above one, NaN).
FillFactors == {<<1, 4>>, <<1, 2>>, <<1, 1>>, <<0, 1>>, <<-1, 2>>, <<3, 2>>, NaN}

\* myKey.Hash(): the key itself, as a uint64.
Hash(k) == k

\* The zero values of K and V, which make() fills fresh arrays with.
ZeroKey == 0
ZeroVal == 0

\* ------------------------------------------------------------ float64 ops
\* fillFactor <= 0 || fillFactor > 1; every comparison with NaN is false.
FillFactorInvalid(f) == IF f = NaN THEN FALSE ELSE f[1] <= 0 \/ f[1] > f[2]

\* The least integer of the model, standing for the least int of the build.
MinInt == -2147483647

\* int(float64(size)/fillFactor): truncation of the quotient.  Converting NaN
\* is implementation-dependent in Go: amd64 yields the least int (so that
\* nEntries is negative), arm64 yields 0.
IntOfQuotient(size, f) == IF f = NaN THEN {MinInt, 0} ELSE {(size * f[2]) \div f[1]}

\* FillExceeded with a slip: the entry to come is counted twice.
FillExceededOffByOne(n, len, t) ==
    IF t = NaN THEN FALSE ELSE (n + 2) * t[2] > len * t[1]

\* float64(n)+1 > float64(len)*threshold; false when threshold is NaN.
FillExceeded(n, len, t) == IF t = NaN THEN FALSE ELSE (n + 1) * t[2] > len * t[1]

\* ------------------------------------------------------------------ state
\* The map's fields; pc: "ready", "hung" (a call that never returns) or
\* "panic"; last: the call made last and what it returned; abs: an ordinary
\* map run beside the table (key -> value, 0 for no entry); nops: the Set and
\* Delete calls made; hint: the size New was called with and the Set calls
\* made since, counted up to size + 1.
VARIABLES keys, values, statuses, threshold, numEntries, pc, last, abs, nops, hint

\* A call of Values(): vmain is "idle" (no call), "running" (channel made,
\* goroutine started, Values not yet returned) or "returned" (the deferred
\* close has run and the caller holds the channel); ch is the channel's
\* buffer, chCap its capacity, closed whether it is closed; prod is the slot
\* the goroutine's loop is at (len(m.values) when the loop is over); recv is
\* what the caller has received and seenClosed whether a receive has reported
\* the channel closed and drained.
VARIABLES vmain, ch, chCap, closed, prod, recv, seenClosed

tableVars == <<keys, values, statuses, threshold, numEntries>>
valuesVars == <<vmain, ch, chCap, closed, prod, recv, seenClosed>>
vars == <<keys, values, statuses, threshold, numEntries, pc, last, abs, nops, hint,
          vmain, ch, chCap, closed, prod, recv, seenClosed>>

\* The Map struct as a value.
Map(ks, vs, sts, t, n) ==
    [keys |-> ks, values |-> vs, statuses |-> sts, threshold |-> t, numEntries |-> n]

\* The receiver *m of the methods.
Self == Map(keys, values, statuses, threshold, numEntries)

\* len(m.keys)
Cap(m) == Cardinality(DOMAIN m.keys)

\* make([]T, n): n zero values, indexed from 0.
Make(n, zero) == [i \in 0 .. n - 1 |-> zero]

\* i++; if i == len(m.keys) { i = 0 }
NextIndex(i, len) == IF i + 1 = len THEN 0 ELSE i + 1

\* ------------------------------------------------------------------- New
\* The fill factor New goes on with: the default for one its check rejects.
EffectiveFillFactor(ff) == IF FillFactorInvalid(ff) THEN defaultFillFactor ELSE ff

\* New(size, fillFactor) for one outcome q of the int conversion: the map, or
\* a panic of make() on a negative length.
NewOf(size, ff, q) ==
    LET fillFactor == EffectiveFillFactor(ff)
        nEntries == q + 1
    IN  IF nEntries < 0
        THEN [panic |-> TRUE, m |-> Map(<<>>, <<>>, <<>>, fillFactor, 0)]
        ELSE [panic |-> FALSE,
              m |-> Map(Make(nEntries, ZeroKey), Make(nEntries, ZeroVal),
                        Make(nEntries, 0), fillFactor, 0)]

\* ------------------------------------------------------------------- Get
\* The loop of Get from slot i, coll slots already passed.
RECURSIVE GetLoop(_, _, _, _)
GetLoop(m, k, i, coll) ==
    IF m.statuses[i] = occupied /\ m.keys[i] = k THEN [ret |-> "found", i |-> i]
    ELSE IF m.statuses[i] = 0 THEN [ret |-> "nil", i |-> i]
    ELSE IF coll + 1 = Cap(m) THEN [ret |-> "hang", i |-> i]
    ELSE GetLoop(m, k, NextIndex(i, Cap(m)), coll + 1)

\* Get(k): "found" with the slot the returned pointer points to, "nil" for
\* (nil, false), or "hang".
GetOf(m, k) ==
    IF m.numEntries = 0 THEN [ret |-> "nil", i |-> 0]
    ELSE GetLoop(m, k, Hash(k) % Cap(m), 0)

\* ---------------------------------------------------------------- resize
\* getNextAvailableIndex(keys, statuses, k) from slot i: the first slot that
\* is not occupied; Cardinality(DOMAIN sts) when there is none (the loop
\* never returns).
RECURSIVE NextAvailableLoop(_, _, _)
NextAvailableLoop(sts, i, n) ==
    IF sts[i] # occupied THEN i
    ELSE IF n + 1 = Cardinality(DOMAIN sts) THEN Cardinality(DOMAIN sts)
    ELSE NextAvailableLoop(sts, NextIndex(i, Cardinality(DOMAIN sts)), n + 1)

\* getNextAvailableIndex with a slip: the search starts at slot 0, not at the
\* key's home slot.
getNextAvailableIndexFromZero(ks, sts, k) == NextAvailableLoop(sts, 0, 0)

getNextAvailableIndex(ks, sts, k) ==
    NextAvailableLoop(sts, Hash(k) % Cardinality(DOMAIN ks), 0)

\* RehashLoop with a slip: every slot that is not empty is copied, tombstones
\* included.
RECURSIVE RehashLoopCopiesDead(_, _, _)
RehashLoopCopiesDead(m, new, i) ==
    IF i = Cap(m) THEN [hang |-> FALSE, m |-> new]
    ELSE IF m.statuses[i] = 0 THEN RehashLoopCopiesDead(m, new, i + 1)
    ELSE LET newI == getNextAvailableIndex(new.keys, new.statuses, m.keys[i])
         IN  IF newI = Cap(new) THEN [hang |-> TRUE, m |-> new]
             ELSE RehashLoopCopiesDead(m,
                     Map([new.keys EXCEPT ![newI] = m.keys[i]],
                         [new.values EXCEPT ![newI] = m.values[i]],
                         [new.statuses EXCEPT ![newI] = occupied],
                         m.threshold, new.numEntries + 1),
                     i + 1)

\* The copy loop of resize from old slot i on: new is the map built so far.
RECURSIVE RehashLoop(_, _, _)
RehashLoop(m, new, i) ==
    IF i = Cap(m) THEN [hang |-> FALSE, m |-> new]
    ELSE IF m.statuses[i] # occupied THEN RehashLoop(m, new, i + 1)
    ELSE LET newI == getNextAvailableIndex(new.keys, new.statuses, m.keys[i])
         IN  IF newI = Cap(new) THEN [hang |-> TRUE, m |-> new]
             ELSE RehashLoop(m,
                     Map([new.keys EXCEPT ![newI] = m.keys[i]],
                         [new.values EXCEPT ![newI] = m.values[i]],
                         [new.statuses EXCEPT ![newI] = occupied],
                         m.threshold, new.numEntries + 1),
                     i + 1)

\* m.resize(newSize): the new map, or hang when a placement never returns.
resize(m, newSize) ==
    LET size == IF newSize < m.numEntries + 1 THEN m.numEntries + 1 ELSE newSize
    IN  RehashLoop(m, Map(Make(size, ZeroKey), Make(size, ZeroVal), Make(size, 0),
                          m.threshold, 0), 0)

\* ------------------------------------------------------------------- Set
\* SetLoop with a slip: an entry written into a tombstone is not counted.
RECURSIVE SetLoopNoCountOnDead(_, _, _, _, _)
SetLoopNoCountOnDead(m, k, v, i, n) ==
    IF m.statuses[i] # occupied
    THEN [ret |-> "inserted", i |-> i,
          m |-> Map([m.keys EXCEPT ![i] = k], [m.values EXCEPT ![i] = v],
                    [m.statuses EXCEPT ![i] = occupied], m.threshold,
                    IF m.statuses[i] = dead THEN m.numEntries ELSE m.numEntries + 1)]
    ELSE IF m.keys[i] = k
    THEN [ret |-> "updated", i |-> i,
          m |-> [m EXCEPT !.values = [m.values EXCEPT ![i] = v]]]
    ELSE IF n + 1 = Cap(m) THEN [ret |-> "hang", i |-> i, m |-> m]
    ELSE SetLoopNoCountOnDead(m, k, v, NextIndex(i, Cap(m)), n + 1)

\* SetLoop with a slip: a tombstone that is taken keeps the key it held.
RECURSIVE SetLoopKeepsKey(_, _, _, _, _)
SetLoopKeepsKey(m, k, v, i, n) ==
    IF m.statuses[i] # occupied
    THEN [ret |-> "inserted", i |-> i,
          m |-> Map(IF m.statuses[i] = dead THEN m.keys ELSE [m.keys EXCEPT ![i] = k],
                    [m.values EXCEPT ![i] = v],
                    [m.statuses EXCEPT ![i] = occupied], m.threshold, m.numEntries + 1)]
    ELSE IF m.keys[i] = k
    THEN [ret |-> "updated", i |-> i,
          m |-> [m EXCEPT !.values = [m.values EXCEPT ![i] = v]]]
    ELSE IF n + 1 = Cap(m) THEN [ret |-> "hang", i |-> i, m |-> m]
    ELSE SetLoopKeepsKey(m, k, v, NextIndex(i, Cap(m)), n + 1)

\* The loop of Set from slot i.
RECURSIVE SetLoop(_, _, _, _, _)
SetLoop(m, k, v, i, n) ==
    IF m.statuses[i] # occupied
    THEN [ret |-> "inserted", i |-> i,
          m |-> Map([m.keys EXCEPT ![i] = k], [m.values EXCEPT ![i] = v],
                    [m.statuses EXCEPT ![i] = occupied], m.threshold, m.numEntries + 1)]
    ELSE IF m.keys[i] = k
    THEN [ret |-> "updated", i |-> i,
          m |-> [m EXCEPT !.values = [m.values EXCEPT ![i] = v]]]
    ELSE IF n + 1 = Cap(m) THEN [ret |-> "hang", i |-> i, m |-> m]
    ELSE SetLoop(m, k, v, NextIndex(i, Cap(m)), n + 1)

\* The fill check of Set.
NeedsResize(m) == FillExceeded(m.numEntries, Cap(m), m.threshold)

\* AfterFillCheck with a slip: the table grows by one slot, not to twice its
\* length.
AfterFillCheckGrowsByOne(m) ==
    IF NeedsResize(m) THEN resize(m, Cap(m) + 1) ELSE [hang |-> FALSE, m |-> m]

\* The map Set probes: m itself, or m resized to twice its length.
AfterFillCheck(m) ==
    IF NeedsResize(m) THEN resize(m, 2 * Cap(m)) ELSE [hang |-> FALSE, m |-> m]

\* Set(k, v): what the probe did, the slot, and the map afterwards.
SetOf(m, k, v) ==
    LET r == AfterFillCheck(m)
    IN  IF r.hang THEN [ret |-> "hang", i |-> 0, m |-> r.m]
        ELSE SetLoop(r.m, k, v, Hash(k) % Cap(r.m), 0)

\* ---------------------------------------------------------------- Delete
\* DeleteLoop with a slip: the slot the search stops at is marked dead before
\* its status is looked at, so that a miss leaves a tombstone behind.
RECURSIVE DeleteLoopMarksMiss(_, _, _, _)
DeleteLoopMarksMiss(m, k, i, n) ==
    IF m.statuses[i] = occupied /\ m.keys[i] = k
    THEN [ret |-> "true", i |-> i,
          m |-> [m EXCEPT !.statuses = [m.statuses EXCEPT ![i] = dead],
                          !.numEntries = m.numEntries - 1]]
    ELSE IF m.statuses[i] = 0
    THEN [ret |-> "false", i |-> i,
          m |-> [m EXCEPT !.statuses = [m.statuses EXCEPT ![i] = dead]]]
    ELSE IF n + 1 = Cap(m) THEN [ret |-> "hang", i |-> i, m |-> m]
    ELSE DeleteLoopMarksMiss(m, k, NextIndex(i, Cap(m)), n + 1)

\* DeleteLoop with a slip: the slot of the deleted key is made empty, not dead.
RECURSIVE DeleteLoopEmpties(_, _, _, _)
DeleteLoopEmpties(m, k, i, n) ==
    IF m.statuses[i] = occupied /\ m.keys[i] = k
    THEN [ret |-> "true", i |-> i,
          m |-> [m EXCEPT !.statuses = [m.statuses EXCEPT ![i] = 0],
                          !.numEntries = m.numEntries - 1]]
    ELSE IF m.statuses[i] = 0 THEN [ret |-> "false", i |-> i, m |-> m]
    ELSE IF n + 1 = Cap(m) THEN [ret |-> "hang", i |-> i, m |-> m]
    ELSE DeleteLoopEmpties(m, k, NextIndex(i, Cap(m)), n + 1)

\* The loop of Delete from slot i.
RECURSIVE DeleteLoop(_, _, _, _)
DeleteLoop(m, k, i, n) ==
    IF m.statuses[i] = occupied /\ m.keys[i] = k
    THEN [ret |-> "true", i |-> i,
          m |-> [m EXCEPT !.statuses = [m.statuses EXCEPT ![i] = dead],
                          !.numEntries = m.numEntries - 1]]
    ELSE IF m.statuses[i] = 0 THEN [ret |-> "false", i |-> i, m |-> m]
    ELSE IF n + 1 = Cap(m) THEN [ret |-> "hang", i |-> i, m |-> m]
    ELSE DeleteLoop(m, k, NextIndex(i, Cap(m)), n + 1)

\* Delete(k): "true", "false" or "hang", the slot, and the map afterwards.
DeleteOf(m, k) ==
    IF m.numEntries = 0 THEN [ret |-> "false", i |-> 0, m |-> m]
    ELSE DeleteLoop(m, k, Hash(k) % Cap(m), 0)

\* Size()
Size(m) == m.numEntries

\* ---------------------------------------------------------------- actions
Store(m) ==
    /\ keys' = m.keys
    /\ values' = m.values
    /\ statuses' = m.statuses
    /\ threshold' = m.threshold
    /\ numEntries' = m.numEntries

Init ==
    \E size \in Sizes, ff \in FillFactors :
      \E q \in IntOfQuotient(size, EffectiveFillFactor(ff)) :
        LET r == NewOf(size, ff, q)
        IN  /\ keys = r.m.keys
            /\ values = r.m.values
            /\ statuses = r.m.statuses
            /\ threshold = r.m.threshold
            /\ numEntries = r.m.numEntries
            /\ pc = IF r.panic THEN "panic" ELSE "ready"
            /\ last = [op |-> "New", size |-> size, fillFactor |-> ff]
            /\ abs = [k \in Keys |-> 0]
            /\ nops = 0
            /\ hint = [size |-> size, sets |-> 0]
            /\ vmain = "idle"
            /\ ch = <<>>
            /\ chCap = 0
            /\ closed = FALSE
            /\ prod = 0
            /\ recv = <<>>
            /\ seenClosed = FALSE

Get(k) ==
    /\ pc = "ready"
    /\ vmain = "idle"
    /\ LET r == GetOf(Self, k)
       IN  /\ pc' = IF r.ret = "hang" THEN "hung" ELSE "ready"
           /\ last' = [op |-> "Get", k |-> k, ret |-> r.ret]
    /\ UNCHANGED <<tableVars, abs, nops, hint, valuesVars>>

Set(k, v) ==
    /\ pc = "ready"
    /\ vmain = "idle"
    /\ nops < MaxOps
    /\ NeedsResize(Self) => 2 * Cap(Self) <= MaxCap
    /\ LET r == SetOf(Self, k, v)
       IN  /\ Store(r.m)
           /\ pc' = IF r.ret = "hang" THEN "hung" ELSE "ready"
           /\ last' = [op |-> "Set", k |-> k, ret |-> r.ret]
           /\ abs' = IF r.ret = "hang" THEN abs ELSE [abs EXCEPT ![k] = v]
           /\ nops' = nops + 1
           /\ hint' = [hint EXCEPT !.sets = IF @ <= hint.size THEN @ + 1 ELSE @]
    /\ UNCHANGED valuesVars

Delete(k) ==
    /\ pc = "ready"
    /\ vmain = "idle"
    /\ nops < MaxOps
    /\ LET r == DeleteOf(Self, k)
       IN  /\ Store(r.m)
           /\ pc' = IF r.ret = "hang" THEN "hung" ELSE "ready"
           /\ last' = [op |-> "Delete", k |-> k, ret |-> r.ret]
           /\ abs' = IF r.ret = "hang" THEN abs ELSE [abs EXCEPT ![k] = 0]
           /\ nops' = nops + 1
    /\ UNCHANGED <<hint, valuesVars>>

\* ---------------------------------------------------------------- Values
\* ch := make(chan V, m.numEntries); defer close(ch); go func() {...}()
ValuesCall ==
    /\ pc = "ready"
    /\ vmain = "idle"
    /\ vmain' = "running"
    /\ ch' = <<>>
    /\ chCap' = numEntries
    /\ closed' = FALSE
    /\ prod' = 0
    /\ last' = [op |-> "Values"]
    /\ UNCHANGED <<tableVars, pc, abs, nops, hint, recv, seenClosed>>

\* return ch: the deferred close(ch) runs as Values returns.
ValuesReturn ==
    /\ pc = "ready"
    /\ vmain = "running"
    /\ vmain' = "returned"
    /\ closed' = TRUE
    /\ UNCHANGED <<tableVars, pc, last, abs, nops, hint, ch, chCap, prod, recv, seenClosed>>

\* One iteration of the goroutine's loop over m.values: a send for an
\* occupied slot.  A send on a closed channel panics; a send on a full
\* buffer waits.
Produce ==
    /\ pc = "ready"
    /\ vmain # "idle"
    /\ prod < Cap(Self)
    /\ IF statuses[prod] # occupied
       THEN /\ prod' = prod + 1
            /\ UNCHANGED <<pc, ch>>
       ELSE IF closed
       THEN /\ pc' = "panic"
            /\ UNCHANGED <<prod, ch>>
       ELSE /\ Len(ch) < chCap
            /\ ch' = Append(ch, values[prod])
            /\ prod' = prod + 1
            /\ UNCHANGED pc
    /\ UNCHANGED <<tableVars, last, abs, nops, hint, vmain, chCap, closed, recv, seenClosed>>

\* The caller receives from the channel Values returned: a buffered value,
\* or, from a closed and drained channel, the report that it is closed.
Receive ==
    /\ pc = "ready"
    /\ vmain = "returned"
    /\ ~seenClosed
    /\ IF ch # <<>>
       THEN /\ recv' = Append(recv, Head(ch))
            /\ ch' = Tail(ch)
            /\ UNCHANGED seenClosed
       ELSE /\ closed
            /\ seenClosed' = TRUE
            /\ UNCHANGED <<recv, ch>>
    /\ UNCHANGED <<tableVars, pc, last, abs, nops, hint, vmain, chCap, closed, prod>>

Next ==
    \/ \E k \in Keys : Get(k)
    \/ \E k \in Keys, v \in Vals : Set(k, v)
    \/ \E k \in Keys : Delete(k)

Spec == Init /\ [][Next]_vars

\* The map's calls, and calls of Values() with the goroutine it starts.
NextValues ==
    \/ \E k \in Keys, v \in Vals : Set(k, v)
    \/ \E k \in Keys : Delete(k)
    \/ ValuesCall
    \/ ValuesReturn
    \/ Produce
    \/ Receive

SpecValues == Init /\ [][NextValues]_vars

\* --------------------------------------------------------- derived views
\* The slots that are occupied and hold k.
SlotsOf(m, k) == {i \in DOMAIN m.keys : m.statuses[i] = occupied /\ m.keys[i] = k}

\* The slots of m with status st.
SlotsWith(m, st) == {i \in DOMAIN m.statuses : m.statuses[i] = st}

\* The slots a probe for k passes before it reaches slot s: from the home slot
\* Hash(k) % len(m.keys) on, wrapping around, s not included.
ProbePath(m, k, s) ==
    LET len == Cap(m)
        h == Hash(k) % len
    IN  {j \in DOMAIN m.keys : (j - h + len) % len < (s - h + len) % len}

\* The keys the ordinary map holds.
Live == {k \in Keys : abs[k] # 0}

\* The values of the occupied slots in storage order, from slot i on.
RECURSIVE OccupiedValuesFrom(_, _)
OccupiedValuesFrom(m, i) ==
    IF i = Cap(m) THEN <<>>
    ELSE IF m.statuses[i] = occupied
    THEN <<m.values[i]>> \o OccupiedValuesFrom(m, i + 1)
    ELSE OccupiedValuesFrom(m, i + 1)

\* ------------------------------------------------------------------ claims

\* C1. Round trip: a key whose last call was Set(K, V), whatever calls on
\* other keys followed (resizing Sets and Deletes of colliding keys among
\* them), is found by Get(K) with the value V.
C1_RoundTrip ==
    \A k \in Live :
        LET r == GetOf(Self, k)
        IN  r.ret = "found" /\ values[r.i] = abs[k]

\* C2. Deletion: right after a Delete(K) that returned true, Get(K) returns
\* not-found and a second Delete(K) returns false.  (A call that never
\* returns is C5's subject and is not held against this claim: what is asked
\* here is that Get does not find K and that Delete does not delete it again.)
C2_DeleteThenAbsent ==
    (last.op = "Delete" /\ last.ret = "true") =>
        /\ GetOf(Self, last.k).ret # "found"
        /\ DeleteOf(Self, last.k).ret # "true"

\* C3. Size: Size() is the number of keys whose most recent call was a Set.
C3_SizeIsLiveKeys == Size(Self) = Cardinality(Live)

\* C4. Update: a Set(K, V2) of a key that was set and not deleted since leaves
\* Size() unchanged, makes Get(K) return V2 and overwrites K's slot in place:
\* no second slot holds K.
C4_UpdateInPlace ==
    [][(last'.op = "Set" /\ last'.ret # "hang" /\ abs[last'.k] # 0) =>
          /\ numEntries' = numEntries
          /\ Cardinality({i \in DOMAIN keys' :
                            statuses'[i] = occupied /\ keys'[i] = last'.k}) = 1
          /\ \A i \in DOMAIN keys' :
                (statuses'[i] = occupied /\ keys'[i] = last'.k) =>
                    values'[i] = abs'[last'.k]]_vars

\* C5. Get and Delete are total: with a fill ratio in (0, 1], Get(K) and
\* Delete(K) return for every key, present or absent.
C5_GetDeleteTotal ==
    (threshold # NaN /\ pc # "panic") =>
        \A k \in Keys :
            GetOf(Self, k).ret # "hang" /\ DeleteOf(Self, k).ret # "hang"

\* C6. Set never fails: for every key Set(K, V) returns, having overwritten
\* the value of an occupied slot holding K or written K into a slot that was
\* not occupied; the placements of resize and the probe of Set find their slot.
C6_SetTotal ==
    pc # "panic" =>
        \A k \in Keys, v \in Vals :
            LET r == SetOf(Self, k, v)
            IN  /\ r.ret \in {"inserted", "updated"}
                /\ r.m.statuses[r.i] = occupied
                /\ r.m.keys[r.i] = k
                /\ r.m.values[r.i] = v

\* C7. Resize preserves contents: where a Set resizes, every key Get found
\* with a value before the resize is found with that value after it, every
\* key not found before is not found after, and Size() is the same.
C7_ResizePreserves ==
    (pc # "panic" /\ NeedsResize(Self)) =>
        LET r == resize(Self, 2 * Cap(Self))
        IN  /\ ~r.hang
            /\ Size(r.m) = Size(Self)
            /\ \A k \in Keys :
                  LET before == GetOf(Self, k)
                      after == GetOf(r.m, k)
                  IN  /\ before.ret = "found" =>
                            (after.ret = "found" /\ r.m.values[after.i] = values[before.i])
                      /\ before.ret = "nil" => after.ret = "nil"

\* C8. Values(): on every interleaving of the goroutine with the return of
\* Values, no send meets a closed channel, and the caller, once it sees the
\* channel closed, has received the values of the occupied slots, each once,
\* in storage order.
C8_ValuesDelivers ==
    /\ vmain # "idle" => pc # "panic"
    /\ seenClosed => recv = OccupiedValuesFrom(Self, 0)

\* C9. Not-found is a normal result without side effect: for a key no occupied
\* slot holds, a Get that returns gives (nil, false) and a Delete that returns
\* gives false; every Get, and every Delete returning false, leaves keys,
\* values, statuses, the count and the capacity as they were.
C9_NotFoundNoEffect ==
    /\ [](pc # "panic" =>
            \A k \in Keys : SlotsOf(Self, k) = {} =>
                /\ GetOf(Self, k).ret \in {"nil", "hang"}
                /\ DeleteOf(Self, k).ret \in {"false", "hang"})
    /\ [][(\/ last'.op = "Get"
           \/ (last'.op = "Delete" /\ last'.ret = "false")) =>
             UNCHANGED tableVars]_vars

\* A Delete of a key that no occupied slot holds, in a map with entries and
\* with tombstones on the way, has returned false.
C9_Witness ==
    /\ last.op = "Delete"
    /\ last.ret = "false"
    /\ numEntries > 0
    /\ \E i \in DOMAIN statuses : statuses[i] = dead

\* C10. Construction: New uses fillFactor itself within (0, 1] and 0.5
\* otherwise, and yields capacity floor(size / fillFactor) + 1, which is at
\* least 1 and more than size, a count of 0 and every slot empty.
C10_NewCapacity ==
    last.op = "New" =>
        LET ff == last.fillFactor
            f == IF ff # NaN /\ ff[1] > 0 /\ ff[1] <= ff[2] THEN ff ELSE <<1, 2>>
        IN  /\ pc = "ready"
            /\ threshold = f
            /\ Cap(Self) = (last.size * f[2]) \div f[1] + 1
            /\ Cap(Self) >= 1
            /\ Cap(Self) > last.size
            /\ numEntries = 0
            /\ \A i \in DOMAIN statuses : statuses[i] = 0

\* C11. Key uniqueness: no two slots are occupied and hold equal keys.
C11_KeysUnique == \A k \in Keys : Cardinality(SlotsOf(Self, k)) <= 1

\* C12. Probe chain: for every occupied slot s holding K, every slot on the
\* probe path from K's home slot up to s is occupied or dead, so that a probe
\* for K is not stopped by an empty slot before it reaches s; deleting a key
\* earlier in a chain does not make Get lose a later key of the chain.
C12_ProbeChain ==
    \A s \in SlotsWith(Self, occupied) :
        /\ \A j \in ProbePath(Self, keys[s], s) : statuses[j] # 0
        /\ GetOf(Self, keys[s]).ret = "found"

\* A key sits behind a tombstone of its chain: its home slot is dead, it is
\* in a later slot, and a Delete has just returned true.
C12_Witness ==
    /\ last.op = "Delete"
    /\ last.ret = "true"
    /\ \E s \in SlotsWith(Self, occupied) :
          \E j \in ProbePath(Self, keys[s], s) : statuses[j] = dead

\* C13. Count bound: with a fill ratio in (0, 1], 1 included,
\* 0 <= count < capacity: at least one slot is not occupied.
C13_CountBelowCapacity ==
    (threshold # NaN /\ pc # "panic") =>
        (0 <= numEntries /\ numEntries < Cap(Self))

\* C14. Count accuracy: count, which Size() returns, is the number of occupied
\* slots, and the count a resize sets is the number of occupied slots copied.
C14_CountIsOccupied ==
    /\ Size(Self) = Cardinality(SlotsWith(Self, occupied))
    /\ NeedsResize(Self) =>
          LET r == resize(Self, 2 * Cap(Self))
          IN  /\ r.m.numEntries = Cardinality(SlotsWith(r.m, occupied))
              /\ r.m.numEntries = Cardinality(SlotsWith(Self, occupied))

\* A Set has written an entry, entries and a tombstone are in the table.
C14_Witness ==
    /\ last.op = "Set"
    /\ last.ret = "inserted"
    /\ numEntries >= 2
    /\ SlotsWith(Self, dead) # {}

\* C15. Fill precondition: with a fill ratio in (0, 1], where Set begins to
\* probe (after its resize, if any) count + 1 <= capacity * fillRatio: one
\* doubling repairs the fill condition.
C15_FillRepaired ==
    (threshold # NaN /\ pc # "panic") =>
        LET r == AfterFillCheck(Self)
        IN  (r.m.numEntries + 1) * threshold[2] <= Cap(r.m) * threshold[1]

\* C16 as stated. A slot that is dead stays dead under every Get, Delete and
\* Set that does not resize.
C16_TombstonesStay ==
    [][~(last'.op = "Set" /\ nops' # nops /\ NeedsResize(Self)) =>
          \A i \in SlotsWith(Self, dead) : statuses'[i] = dead]_vars

\* C16 as amended. Delete marks the slot of the key it deletes dead; a dead
\* slot stays dead under every Get and Delete; a Set that does not resize
\* leaves it dead or inserts its key into it (the slot becomes occupied and
\* holds the key of the Set); it is never made empty short of a resize.
C16_TombstonesAmended ==
    [][/\ (last'.op = "Delete" /\ nops' # nops /\ last'.ret = "true") =>
             \E i \in SlotsWith(Self, occupied) :
                 /\ keys[i] = last'.k
                 /\ statuses' = [statuses EXCEPT ![i] = dead]
       /\ ~(last'.op = "Set" /\ nops' # nops /\ NeedsResize(Self)) =>
             \A i \in SlotsWith(Self, dead) :
                 \/ statuses'[i] = dead
                 \/ /\ last'.op = "Set"
                    /\ last'.ret = "inserted"
                    /\ statuses'[i] = occupied
                    /\ keys'[i] = last'.k]_vars

\* A Set that did not resize has left a tombstone where it was.
C16_Witness ==
    /\ last.op = "Set"
    /\ SlotsWith(Self, dead) # {}
    /\ SlotsWith(Self, occupied) # {}

\* C17. Rehash: right after a resize no slot is dead, as many slots are
\* occupied as were before, the capacity is at least count + 1 and the
\* threshold is the one configured.
C17_RehashResult ==
    (pc # "panic" /\ NeedsResize(Self)) =>
        LET r == resize(Self, 2 * Cap(Self))
        IN  /\ ~r.hang
            /\ SlotsWith(r.m, dead) = {}
            /\ Cardinality(SlotsWith(r.m, occupied)) =
                  Cardinality(SlotsWith(Self, occupied))
            /\ Cap(r.m) >= r.m.numEntries + 1
            /\ r.m.threshold = threshold

\* A table that the next Set resizes holds entries and a tombstone.
C17_Witness ==
    /\ pc = "ready"
    /\ NeedsResize(Self)
    /\ SlotsWith(Self, dead) # {}
    /\ SlotsWith(Self, occupied) # {}

\* C18. Capacity only grows: it is at least 1; Get, Delete and a Set whose
\* fill check is false leave it as it is; a Set whose fill check is true
\* makes it twice what it was.
C18_CapacityGrows ==
    /\ [](pc # "panic" => Cap(Self) >= 1)
    /\ [][Cardinality(DOMAIN keys') =
             IF last'.op = "Set" /\ nops' # nops /\ NeedsResize(Self)
             THEN 2 * Cap(Self) ELSE Cap(Self)]_vars

\* A Set has doubled a table of two slots.
C18_Witness ==
    /\ last.op = "Set"
    /\ last.ret = "inserted"
    /\ Cap(Self) = 4
    /\ threshold = <<1, 1>>
    /\ numEntries = 3

\* C19. Size hint: with a fill ratio in (0, 1], none of the first n Set calls
\* on a map made by New(n, fillRatio) resizes: the capacity is
\* floor(n / fillRatio) + 1 as long as at most n Set calls were made.
C19_HintHonoured ==
    (threshold # NaN /\ pc # "panic") =>
        /\ hint.sets <= hint.size =>
              Cap(Self) = (hint.size * threshold[2]) \div threshold[1] + 1
        /\ hint.sets < hint.size => ~NeedsResize(Self)

\* The n-th Set on a map made by New(n, _), n >= 1, has returned.
C19_Witness ==
    /\ threshold # NaN
    /\ hint.size >= 1
    /\ hint.sets = hint.size
    /\ last.op = "Set"
    /\ last.ret = "inserted"

\* C20. Slot status transitions: short of a resize a slot goes from empty to
\* occupied, from occupied to dead or from dead to occupied, or stays as it
\* is; the empty slots do not become more, and Delete makes no slot empty.
C20_StatusTransitions ==
    [][~(last'.op = "Set" /\ nops' # nops /\ NeedsResize(Self)) =>
          /\ \A i \in DOMAIN statuses :
                \/ statuses'[i] = statuses[i]
                \/ statuses[i] = 0 /\ statuses'[i] = occupied
                \/ statuses[i] = occupied /\ statuses'[i] = dead
                \/ statuses[i] = dead /\ statuses'[i] = occupied
          /\ Cardinality({i \in DOMAIN statuses' : statuses'[i] = 0})
                <= Cardinality(SlotsWith(Self, 0))]_vars

\* A Delete has returned true in a table that has an empty slot left.
C20_Witness ==
    /\ last.op = "Delete"
    /\ last.ret = "true"
    /\ SlotsWith(Self, dead) # {}
    /\ SlotsWith(Self, 0) # {}

====
